---- MODULE Spec2Model ----
(***************************************************************************)
(* The game-library cog of Alchez/Discord-GameLibrary: the per-user        *)
(* Library Store kept in the host's Config, the command handlers that      *)
(* read and write it, the Steam sync, the audience resolution and the      *)
(* common-games computation.                                               *)
(*                                                                         *)
(* Three revisions of the cog are in the repository:                       *)
(*   "gamelib"       src/gamelib/game.py       (the latest)                *)
(*   "game-library"  src/game-library/game.py                              *)
(*   "legacy"        src/game.py     (suggestions, add, addto and list)    *)
(* The variable rev says which revision a behaviour runs.                  *)
(*                                                                         *)
(* Every handler is a coroutine: it can be suspended at each await, and    *)
(* the host dispatches one coroutine per command invocation.  A handler    *)
(* that reads and then writes the Config is modelled as one step per       *)
(* await on the Config; its position is the pc of its request.             *)
(***************************************************************************)
EXTENDS Integers, Sequences, FiniteSets, TLC

\* ------------------------------------------------------------------ bounds

\* Requests the host runs at the same time.
MaxInFlight == 2
\* Copies of one title a stored list may hold before a handler that would add
\* more is no longer started (game-library's steamlink appends without limit).
MaxCopies == 2

\* ------------------------------------------------------------ the universe

Revisions == {"gamelib", "game-library", "legacy"}
StoreRevisions == {"gamelib", "game-library"}

\* Guild members (user ids).
Users == {1, 2, 3}
\* The members that issue, and are the target of, library commands.
StoreUsers == {1, 2}
\* Members holding admin or the manage_messages permission.
Admins == {1}

Titles == {"Checkers", "Chess", "Go"}
\* Titles typed by hand into add and remove.
TypedTitles == {"Chess", "Go"}
\* No title: the empty str.
NoTitle == ""

\* Case-sensitive lexicographic order of the titles (Python's str order).
TitleRank(t) ==
    CASE t = "Checkers" -> 1
      [] t = "Chess" -> 2
      [] t = "Go" -> 3

\* --------------------------------------------------------- Python lists
\* A stored list is kept as the number of copies of each title: no handler
\* observes the order of a stored list (membership, remove-first, set() and
\* sorted() are all the code applies to one).

EmptyList == [t \in Titles |-> 0]

\* x in xs
In(t, xs) == xs[t] > 0

\* xs.append(t)
ListAppend(xs, t) == [xs EXCEPT ![t] = @ + 1]

\* xs.remove(t): drops the first copy; the callers test membership first
ListRemove(xs, t) == [xs EXCEPT ![t] = @ - 1]

\* xs.extend(ys)
ListExtend(xs, ys) == [t \in Titles |-> xs[t] + ys[t]]

\* set(xs)
SetOf(xs) == {t \in Titles : xs[t] > 0}

\* list(S) for a set S
ListOf(S) == [t \in Titles |-> IF t \in S THEN 1 ELSE 0]

\* not xs (an empty list is falsy)
IsEmpty(xs) == \A t \in Titles : xs[t] = 0

HasDuplicates(xs) == \E t \in Titles : xs[t] > 1

Lists == [Titles -> 0..(MaxCopies + 1)]

\* ------------------------------------------------------------------- Steam

NoSteamId == ""
SteamIds == {"76561198000000001", "76561198000000002"}
\* What a user may type as the steam_id argument: a 64-bit id or a profile name.
SteamArgs == SteamIds \cup {"Alyx", "nobody"}

\* SteamID(arg).is_valid() / int(arg) succeeding: the argument is a 64-bit id
IsSteamId64(arg) == arg \in SteamIds

\* ISteamUser.ResolveVanityURL: the id of a profile name, NoSteamId when the
\* response's success is not 1
ResolveVanityURL(name) ==
    IF name = "Alyx" THEN "76561198000000001" ELSE NoSteamId

\* IPlayerService.GetOwnedGames: the names of the games of an account.  The
\* second account owns nothing.
GetOwnedGames(id) ==
    IF id = "76561198000000001" THEN ListOf({"Checkers", "Go"}) ELSE EmptyList

NoKey == ""
Keys == {"K"}

\* ---------------------------------------------------------------- state

VARIABLES
    rev,        \* the revision of the cog that is loaded
    games,      \* Config: user -> "games" (default [])
    steam_id,   \* Config: user -> "steam_id" (default "")
    steamkey,   \* Config: global "steamkey" (default "")
    stored,     \* Config: the users a value was ever set for (all_users())
    bare,       \* legacy games.json: user -> the str stored in place of a list
    bot,        \* guild: member -> member.bot
    status,     \* guild: member -> member.status.name
    voice,      \* guild: member -> the voice channel joined, 0 for none
    reqs,       \* the command invocations in flight, by slot
    track,      \* history: which history the behaviour records
    lastop,     \* history: user -> title -> its last add or remove that took effect
    merged      \* history: the last Steam merge, while nothing else wrote its list

store == <<games, steam_id, steamkey, stored>>
guild == <<bot, status, voice>>
history == <<track, lastop, merged>>
vars == <<rev, games, steam_id, steamkey, stored, bare, bot, status, voice, reqs, track, lastop, merged>>

Statuses == {"online", "idle", "dnd", "offline"}
Channels == {1, 2}
NoChannel == 0

Slots == 1..MaxInFlight

\* A slot with no invocation.
\* local: the handler's list (games, current_games, game_list); fetched:
\* the names get_steam_games returned; id64: steamsync's resolved id; sent:
\* the messages sent so far; users, ret, suggestions: what get_users and
\* get_suggestions gave a suggestion command ("unset": not called; "None";
\* "list"; the name of the exception get_users left the handler with); polled: the options handed to create_strawpoll; listed: the
\* order guild.members had, where a handler's step depends on it; read:
\* the list the list command read; result: predicate.result of _destroy's
\* yes_or_no predicate ("unset" until a message matched it).
Idle ==
    [cmd |-> "none", author |-> 0, user |-> 0, arg |-> "", pc |-> "idle",
     id64 |-> "", local |-> EmptyList, fetched |-> EmptyList, sent |-> <<>>,
     users |-> {}, ret |-> "unset", suggestions |-> <<>>, polled |-> <<>>,
     listed |-> <<>>, read |-> EmptyList, result |-> "unset"]

NewReq(cmd, author, user, arg, pc) ==
    [Idle EXCEPT !.cmd = cmd, !.author = author, !.user = user, !.arg = arg, !.pc = pc]

\* The handler of the slot has returned ("done") or an exception left it
\* ("raised"): the slot can take the next invocation.
Ended(r) == r.pc \in {"done", "raised"}
Free(s) == reqs[s].pc = "idle" \/ Ended(reqs[s])

\* await ctx.send(msg)
Send(r, msg) == [r EXCEPT !.sent = Append(@, msg)]
\* the handler returns
Return(r) == [r EXCEPT !.pc = "done", !.local = EmptyList, !.fetched = EmptyList]
\* an exception no handler catches
Raise(r) == [r EXCEPT !.pc = "raised", !.local = EmptyList, !.fetched = EmptyList]
\* await ctx.send(msg) as the handler's last statement
Finish(r, msg) == Return(Send(r, msg))

Sent(r, msg) == \E i \in 1..Len(r.sent) : r.sent[i] = msg

\* -------------------------------------------------------------- history
\* History variables: they record what the handlers did and no handler
\* reads them.  track says which one a behaviour records.

NoMerge == [runs |-> 0, user |-> 0, fetched |-> EmptyList, once |-> {}]

InitHistory(tracked) ==
    /\ track = tracked
    /\ lastop = [u \in Users |-> [t \in Titles |-> "none"]]
    /\ merged = NoMerge

\* The history after request r wrote the list of r.user.
\* lastop: the add or the remove that wrote.
\* merged: a merge that writes right after a merge of the same fetched
\* names into the same list is a second run (runs = 2) and keeps the title
\* set the first run left (once); another merge starts anew; any other
\* write forgets the merge.
\* lastop under "during": an add that wrote while a merge into the same
\* list had its Steam fetch in flight.
Recorded(r) ==
    /\ track' = track
    /\ lastop' = IF track = "lastop" /\ r.cmd \in {"add", "remove"}
                 THEN [lastop EXCEPT ![r.user][r.arg] = r.cmd]
                 ELSE IF /\ track = "during" /\ r.cmd = "add"
                         /\ \E s \in Slots :
                              /\ reqs[s].cmd \in {"update", "steamsync"}
                              /\ reqs[s].user = r.user
                              /\ reqs[s].pc = "fetch"
                 THEN [lastop EXCEPT ![r.user][r.arg] = "during"]
                 ELSE lastop
    /\ merged' = IF track # "merged" THEN merged
                 ELSE IF r.cmd \notin {"update", "steamsync"} THEN NoMerge
                 ELSE IF merged.runs > 0 /\ merged.user = r.user /\ merged.fetched = r.fetched
                      THEN [merged EXCEPT !.runs = 2]
                 ELSE [runs |-> 1, user |-> r.user, fetched |-> r.fetched,
                       once |-> SetOf(games'[r.user])]

\* ------------------------------------------------------------------- add

\* add: with a user argument _add_to, else _add for ctx.author.  _add_to is a
\* plain coroutine method carrying the admin_or_permissions decorator; the
\* handler calls it directly, so the host runs no check on it.
add(s, author, game, user) ==
    /\ Free(s)
    /\ reqs' = [reqs EXCEPT ![s] = NewReq("add", author, user, game, "read")]
    /\ UNCHANGED <<rev, bare, store, guild, history>>

\* add_read without the already-exists test: every add appends.
add_read_always_appends(s) ==
    LET r == reqs[s] IN
    /\ r.cmd = "add" /\ r.pc = "read"
    /\ games[r.user][r.arg] < MaxCopies
    /\ reqs' = [reqs EXCEPT ![s] =
          [r EXCEPT !.pc = "write", !.local = ListAppend(games[r.user], r.arg)]]
    /\ UNCHANGED <<rev, bare, store, guild, history>>

\* _add, up to the write: games = await config.user(user).games(); the
\* already-exists return; games.append(game)
add_read(s) ==
    LET r == reqs[s] IN
    /\ r.cmd = "add" /\ r.pc = "read"
    /\ reqs' = [reqs EXCEPT ![s] =
          IF In(r.arg, games[r.user])
          THEN Finish(r, "already_exists")
          ELSE [r EXCEPT !.pc = "write", !.local = ListAppend(games[r.user], r.arg)]]
    /\ UNCHANGED <<rev, bare, store, guild, history>>

\* _add: await config.user(user).games.set(games); the "was added" message
add_write(s) ==
    LET r == reqs[s] IN
    /\ r.cmd = "add" /\ r.pc = "write"
    /\ games' = [games EXCEPT ![r.user] = r.local]
    /\ stored' = stored \cup {r.user}
    /\ reqs' = [reqs EXCEPT ![s] = Finish(r, "added")]
    /\ Recorded(r)
    /\ UNCHANGED <<rev, bare, steam_id, steamkey, guild>>

\* ---------------------------------------------------------------- remove

\* remove: with a user argument _remove_from (decorated like _add_to, and
\* called directly like it), else _remove for ctx.author
remove(s, author, game, user) ==
    /\ Free(s)
    /\ reqs' = [reqs EXCEPT ![s] = NewReq("remove", author, user, game, "read")]
    /\ UNCHANGED <<rev, bare, store, guild, history>>

\* remove_read answering "was removed" for a title that is not in the list.
remove_read_always_removed(s) ==
    LET r == reqs[s] IN
    /\ r.cmd = "remove" /\ r.pc = "read"
    /\ reqs' = [reqs EXCEPT ![s] =
          IF In(r.arg, games[r.user])
          THEN [r EXCEPT !.pc = "write", !.local = ListRemove(games[r.user], r.arg)]
          ELSE Finish(r, "removed")]
    /\ UNCHANGED <<rev, bare, store, guild, history>>

\* _remove, up to the write: the read, the membership test, games.remove(game)
remove_read(s) ==
    LET r == reqs[s] IN
    /\ r.cmd = "remove" /\ r.pc = "read"
    /\ reqs' = [reqs EXCEPT ![s] =
          IF In(r.arg, games[r.user])
          THEN [r EXCEPT !.pc = "write", !.local = ListRemove(games[r.user], r.arg)]
          ELSE Finish(r, "not_in_library")]
    /\ UNCHANGED <<rev, bare, store, guild, history>>

\* _remove: games.set(games); the "was removed" message
remove_write(s) ==
    LET r == reqs[s] IN
    /\ r.cmd = "remove" /\ r.pc = "write"
    /\ games' = [games EXCEPT ![r.user] = r.local]
    /\ stored' = stored \cup {r.user}
    /\ reqs' = [reqs EXCEPT ![s] = Finish(r, "removed")]
    /\ Recorded(r)
    /\ UNCHANGED <<rev, bare, steam_id, steamkey, guild>>

\* --------------------------------------------------------------- destroy

\* destroy: _destroy_for (decorated, called directly) or _destroy; _destroy
\* first sends the "Are you sure?" prompt and waits for the author's answer
destroy(s, author, user) ==
    /\ Free(s)
    /\ reqs' = [reqs EXCEPT ![s] = Send(NewReq("destroy", author, user, "", "wait"), "are_you_sure")]
    /\ UNCHANGED <<rev, bare, store, guild, history>>

DestroyAnswers == {"timeout", "yes", "no"}

\* destroy_wait going on to clear the list after a no as after a yes.
destroy_wait_clears_after_no(s, answer) ==
    LET r == reqs[s] IN
    /\ r.cmd = "destroy" /\ r.pc = "wait"
    /\ reqs' = [reqs EXCEPT ![s] =
          CASE answer = "timeout" -> Finish(r, "thats_what_i_thought")
            [] answer = "no" -> [r EXCEPT !.pc = "write", !.result = "False", !.local = EmptyList]
            [] answer = "yes" -> [r EXCEPT !.pc = "write", !.result = "True", !.local = EmptyList]]
    /\ UNCHANGED <<rev, bare, store, guild, history>>

\* _destroy: bot.wait_for('message', timeout=15, check=yes_or_no) ends by the
\* timeout or by a yes or a no of the author, which the predicate keeps as
\* its result.  After a yes the list is read and cleared (games.clear()
\* leaves [] whatever was read).
destroy_wait(s, answer) ==
    LET r == reqs[s] IN
    /\ r.cmd = "destroy" /\ r.pc = "wait"
    /\ reqs' = [reqs EXCEPT ![s] =
          CASE answer = "timeout" -> Finish(r, "thats_what_i_thought")
            [] answer = "no" -> Finish([r EXCEPT !.result = "False"], "that_was_close")
            [] answer = "yes" -> [r EXCEPT !.pc = "write", !.result = "True", !.local = EmptyList]]
    /\ UNCHANGED <<rev, bare, store, guild, history>>

\* destroy_write clearing the whole user record, the steam_id with the games.
destroy_write_clears_record(s) ==
    LET r == reqs[s] IN
    /\ r.cmd = "destroy" /\ r.pc = "write"
    /\ games' = [games EXCEPT ![r.user] = r.local]
    /\ steam_id' = [steam_id EXCEPT ![r.user] = NoSteamId]
    /\ stored' = stored \cup {r.user}
    /\ reqs' = [reqs EXCEPT ![s] = Finish(r, "nuked")]
    /\ Recorded(r)
    /\ UNCHANGED <<rev, bare, steamkey, guild>>

\* _destroy: games.set(games) with the cleared list; the "nuked" message
destroy_write(s) ==
    LET r == reqs[s] IN
    /\ r.cmd = "destroy" /\ r.pc = "write"
    /\ games' = [games EXCEPT ![r.user] = r.local]
    /\ stored' = stored \cup {r.user}
    /\ reqs' = [reqs EXCEPT ![s] = Finish(r, "nuked")]
    /\ Recorded(r)
    /\ UNCHANGED <<rev, bare, steam_id, steamkey, guild>>

\* -------------------------------------------------------------- steamkey

\* steamkey: config.steamkey.set(key) and the confirmation; the command
\* carries no permission check
steamkey_cmd(s, author, key) ==
    /\ Free(s)
    /\ steamkey' = key
    /\ reqs' = [reqs EXCEPT ![s] = Finish(NewReq("steamkey", author, author, key, "set"), "key_added")]
    /\ UNCHANGED <<rev, bare, games, steam_id, stored, guild, history>>

\* ------------------------------------------------------- get_steam_games

\* Whether WebAPI(key=key) raises OSError is the network's choice.
Networks == {"up", "down"}

\* gamelib get_steam_games on top of get_steam_client: the request after
\* the call, with the names it returned in fetched.  No key, or no
\* connection: a message and the empty list.
get_steam_games(r, net) ==
    IF steamkey = NoKey THEN [Send(r, "need_key") EXCEPT !.fetched = EmptyList]
    ELSE IF net = "down" THEN [Send(r, "steam_error") EXCEPT !.fetched = EmptyList]
    ELSE [r EXCEPT !.fetched = GetOwnedGames(steam_id[r.user])]

\* game-library get_steam_games: False without a key (an empty result to
\* both callers); otherwise the names of response.get('games'), which is
\* None for an account with no games and for the empty steam_id, and
\* iterating None raises TypeError.
lib_get_steam_games(r) ==
    IF steamkey = NoKey THEN [r EXCEPT !.fetched = EmptyList]
    ELSE IF IsEmpty(GetOwnedGames(steam_id[r.user])) THEN Raise(r)
    ELSE [r EXCEPT !.fetched = GetOwnedGames(steam_id[r.user])]

\* ---------------------------------------------------------------- update

\* update: _update_for (decorated, called directly) or _update
update(s, author, user) ==
    /\ Free(s)
    /\ reqs' = [reqs EXCEPT ![s] = NewReq("update", author, user, "", "fetch")]
    /\ UNCHANGED <<rev, bare, store, guild, history>>

\* _update up to the Steam call: the not-linked return, get_steam_games,
\* the return on an empty result.  (The steam_id is read twice, by _update
\* and by get_steam_games; no handler ever stores the empty steam_id, so the
\* two reads are taken together.)
update_fetch(s, net) ==
    LET r == reqs[s]
        got == get_steam_games(r, net)
        lib == lib_get_steam_games(r)
    IN
    /\ r.cmd = "update" /\ r.pc = "fetch"
    /\ reqs' = [reqs EXCEPT ![s] =
          IF steam_id[r.user] = NoSteamId THEN Finish(r, "not_linked")
          ELSE IF rev = "gamelib" THEN
               IF IsEmpty(got.fetched) THEN Return(got)
               ELSE [got EXCEPT !.pc = "read"]
          ELSE \* game-library: the need-a-key message on every empty result
               IF lib.pc = "raised" THEN lib
               ELSE IF IsEmpty(lib.fetched) THEN Finish(lib, "need_key")
               ELSE [lib EXCEPT !.pc = "read"]]
    /\ (rev = "gamelib" \/ net = "up")
    /\ UNCHANGED <<rev, bare, store, guild, history>>

\* update_read extending an empty list, not the stored one.
update_read_ignores_stored(s) ==
    LET r == reqs[s] IN
    /\ r.cmd = "update" /\ r.pc = "read"
    /\ reqs' = [reqs EXCEPT ![s] =
          [r EXCEPT !.pc = "write", !.local = ListExtend(EmptyList, r.fetched)]]
    /\ UNCHANGED <<rev, bare, store, guild, history>>

\* _update: current_games = await games(); current_games.extend(updated_games)
update_read(s) ==
    LET r == reqs[s] IN
    /\ r.cmd = "update" /\ r.pc = "read"
    /\ reqs' = [reqs EXCEPT ![s] =
          [r EXCEPT !.pc = "write", !.local = ListExtend(games[r.user], r.fetched)]]
    /\ UNCHANGED <<rev, bare, store, guild, history>>

\* update_write storing only the fetched names that were not stored yet.
update_write_only_new(s) ==
    LET r == reqs[s] IN
    /\ r.cmd = "update" /\ r.pc = "write"
    /\ games' = [games EXCEPT ![r.user] = ListOf(SetOf(r.fetched) \ SetOf(games[r.user]))]
    /\ stored' = stored \cup {r.user}
    /\ reqs' = [reqs EXCEPT ![s] = Finish(r, "updated")]
    /\ Recorded(r)
    /\ UNCHANGED <<rev, bare, steam_id, steamkey, guild>>

\* _update: games.set(list(set(current_games))); the "updated" message
update_write(s) ==
    LET r == reqs[s] IN
    /\ r.cmd = "update" /\ r.pc = "write"
    /\ games' = [games EXCEPT ![r.user] = ListOf(SetOf(r.local))]
    /\ stored' = stored \cup {r.user}
    /\ reqs' = [reqs EXCEPT ![s] = Finish(r, "updated")]
    /\ Recorded(r)
    /\ UNCHANGED <<rev, bare, steam_id, steamkey, guild>>

\* ------------------------------------------------ steamsync / steamlink

\* steamsync (gamelib) and steamlink (game-library): user defaults to
\* ctx.author; neither checks the author's permissions
steamsync(s, author, arg, user) ==
    /\ Free(s)
    /\ \A t \in Titles : games[user][t] < MaxCopies
    /\ reqs' = [reqs EXCEPT ![s] = NewReq("steamsync", author, user, arg, "resolve")]
    /\ UNCHANGED <<rev, bare, store, guild, history>>

\* steamsync_resolve going on to link what an unresolved name gave.
steamsync_resolve_links_unresolved(s, net) ==
    LET r == reqs[s] IN
    /\ r.cmd = "steamsync" /\ r.pc = "resolve"
    /\ (rev = "gamelib" \/ net = "up")
    /\ reqs' = [reqs EXCEPT ![s] =
          IF IsSteamId64(r.arg) THEN
               IF rev = "gamelib" THEN [r EXCEPT !.pc = "link", !.id64 = r.arg]
               ELSE [r EXCEPT !.pc = "fetch"]
          ELSE IF steamkey = NoKey THEN Finish(r, "need_key")
          ELSE IF rev = "gamelib" /\ net = "down" THEN Finish(r, "steam_error")
          ELSE [r EXCEPT !.pc = "link", !.id64 = ResolveVanityURL(r.arg)]]
    /\ UNCHANGED <<rev, bare, store, guild, history>>

\* The id to link: the argument when it is a 64-bit id, else the id its
\* profile name resolves to.  gamelib needs a Steam client to resolve a name
\* (a key, and a connection), game-library a key; both stop on a name that
\* does not resolve.  game-library goes on to the fetch with a 64-bit id
\* without storing it.
steamsync_resolve(s, net) ==
    LET r == reqs[s] IN
    /\ r.cmd = "steamsync" /\ r.pc = "resolve"
    /\ (rev = "gamelib" \/ net = "up")
    /\ reqs' = [reqs EXCEPT ![s] =
          IF IsSteamId64(r.arg) THEN
               IF rev = "gamelib" THEN [r EXCEPT !.pc = "link", !.id64 = r.arg]
               ELSE [r EXCEPT !.pc = "fetch"]
          ELSE IF steamkey = NoKey THEN Finish(r, "need_key")
          ELSE IF rev = "gamelib" /\ net = "down" THEN Finish(r, "steam_error")
          ELSE IF ResolveVanityURL(r.arg) = NoSteamId THEN Finish(r, "vanity_problem")
          ELSE [r EXCEPT !.pc = "link", !.id64 = ResolveVanityURL(r.arg)]]
    /\ UNCHANGED <<rev, bare, store, guild, history>>

\* await config.user(user).steam_id.set(...)
steamsync_link(s) ==
    LET r == reqs[s] IN
    /\ r.cmd = "steamsync" /\ r.pc = "link"
    /\ steam_id' = [steam_id EXCEPT ![r.user] = r.id64]
    /\ stored' = stored \cup {r.user}
    /\ reqs' = [reqs EXCEPT ![s] = [r EXCEPT !.pc = "fetch"]]
    /\ UNCHANGED <<rev, bare, games, steamkey, guild, history>>

\* get_steam_games(user) and the test of its result: a non-empty list goes
\* on to the merge, anything else straight to the "was synced" message
steamsync_fetch(s, net) ==
    LET r == reqs[s]
        got == IF rev = "gamelib" THEN get_steam_games(r, net) ELSE lib_get_steam_games(r)
    IN
    /\ r.cmd = "steamsync" /\ r.pc = "fetch"
    /\ (rev = "gamelib" \/ net = "up")
    /\ reqs' = [reqs EXCEPT ![s] =
          IF got.pc = "raised" THEN got
          ELSE IF IsEmpty(got.fetched) THEN Finish(got, "synced")
          ELSE [got EXCEPT !.pc = "read"]]
    /\ UNCHANGED <<rev, bare, store, guild, history>>

\* game_list = await games(); game_list.extend(steam_game_list).  (The read
\* waits while the extended list would pass MaxCopies copies of a title.)
steamsync_read(s) ==
    LET r == reqs[s] IN
    /\ r.cmd = "steamsync" /\ r.pc = "read"
    /\ \A t \in Titles : games[r.user][t] + r.fetched[t] <= MaxCopies
    /\ reqs' = [reqs EXCEPT ![s] =
          [r EXCEPT !.pc = "write", !.local = ListExtend(games[r.user], r.fetched)]]
    /\ UNCHANGED <<rev, bare, store, guild, history>>

\* games.set(game_list): gamelib stores list(set(game_list)), game-library
\* the extended list as it is
steamsync_write(s) ==
    LET r == reqs[s] IN
    /\ r.cmd = "steamsync" /\ r.pc = "write"
    /\ games' = [games EXCEPT ![r.user] =
          IF rev = "gamelib" THEN ListOf(SetOf(r.local)) ELSE r.local]
    /\ stored' = stored \cup {r.user}
    /\ reqs' = [reqs EXCEPT ![s] = Finish(r, "synced")]
    /\ Recorded(r)
    /\ UNCHANGED <<rev, bare, steam_id, steamkey, guild>>

\* ------------------------------------------------------------------ list

\* list [user]: the user's stored list.  gamelib and game-library read the
\* Config (the default [] for a user with no record); the legacy cog sends
\* the heading and then indexes games.json with the user's id, a KeyError
\* for a user with no entry, and joins the characters of a bare str.
list_cmd(s, author, user) ==
    LET r == NewReq("list", author, user, "", "run") IN
    /\ Free(s)
    /\ reqs' = [reqs EXCEPT ![s] =
          IF rev = "legacy" THEN
               IF user \notin stored THEN Raise(Send(r, "your_games"))
               ELSE IF bare[user] # NoTitle
                    THEN Finish([Send(r, "your_games") EXCEPT !.ret = "chars"], "page")
               ELSE Finish([Send(r, "your_games") EXCEPT !.ret = "list", !.read = games[user]], "page")
          ELSE IF IsEmpty(games[user]) THEN Finish([r EXCEPT !.ret = "list"], "no_games")
          ELSE Finish([Send(r, "check_dm") EXCEPT !.ret = "list", !.read = games[user]], "page")]
    /\ UNCHANGED <<rev, bare, store, guild, history>>

\* ------------------------------------------- the legacy add and addto

\* add(game, user) of the legacy cog: games.json loaded, the user's entry
\* indexed (KeyError without one), the membership test, append and save.
\* The function does not await: it runs in one step.  On a bare str the
\* membership test is a substring test and append an AttributeError.
legacy_add_to_list(r) ==
    IF r.user \notin stored THEN [ret |-> "raised", games |-> games]
    ELSE IF bare[r.user] # NoTitle THEN
         IF bare[r.user] = r.arg THEN [ret |-> "False", games |-> games]
         ELSE [ret |-> "raised", games |-> games]
    ELSE IF In(r.arg, games[r.user]) THEN [ret |-> "False", games |-> games]
    ELSE [ret |-> "True",
          games |-> [games EXCEPT ![r.user] = ListAppend(games[r.user], r.arg)]]

\* game add <game> of the legacy cog: always the author's list
legacy_add(s, author, game) ==
    LET r == NewReq("add", author, author, game, "run")
        did == legacy_add_to_list(r)
    IN
    /\ Free(s)
    /\ rev = "legacy"
    /\ games' = did.games
    /\ reqs' = [reqs EXCEPT ![s] =
          CASE did.ret = "raised" -> Raise(r)
            [] did.ret = "True" -> Finish(r, "added")
            [] did.ret = "False" -> Finish(r, "already_exists")]
    /\ UNCHANGED <<rev, bare, steam_id, steamkey, stored, guild, history>>

\* game addto <game> <user> of the legacy cog, a command behind
\* checks.admin_or_permissions: add for a user games.json has an entry for;
\* for any other user the entry becomes the game itself, a str, and nothing
\* is sent.
legacy_addto(s, author, game, user) ==
    LET r == NewReq("addto", author, user, game, "run")
        did == legacy_add_to_list(r)
    IN
    /\ Free(s)
    /\ rev = "legacy"
    /\ author \in Admins
    /\ IF user \in stored
       THEN /\ games' = did.games
            /\ UNCHANGED <<bare, stored>>
            /\ reqs' = [reqs EXCEPT ![s] =
                  CASE did.ret = "raised" -> Raise(r)
                    [] did.ret = "True" -> Finish(r, "added")
                    [] did.ret = "False" -> Finish(r, "already_exists")]
       ELSE /\ bare' = [bare EXCEPT ![user] = game]
            /\ stored' = stored \cup {user}
            /\ UNCHANGED games
            /\ reqs' = [reqs EXCEPT ![s] = Return(r)]
    /\ UNCHANGED <<rev, steam_id, steamkey, guild, history>>

\* ------------------------------------------------------- the audience

\* choice of suggest and poll: None, or what the author typed ("" when the
\* author typed an empty quoted word)
NoChoice == "<None>"
Choices == {NoChoice, "online", "ONLINE", "voice", "everyone", ""}

\* choice.lower()
Lower(c) == IF c = "ONLINE" THEN "online" ELSE c

\* get_users' result: the ids collected, or MemberNotInVoiceChannelError
Collected(us) == [raised |-> FALSE, users |-> us]
NotInVoice == [raised |-> TRUE, users |-> {}]

\* voice_users taking the online members when the author is in no channel.
voice_users_or_online(author) ==
    IF voice[author] = NoChannel
    THEN Collected({u \in Users : status[u] \in {"idle", "online"} /\ ~bot[u]})
    ELSE Collected({u \in Users : voice[u] = voice[author] /\ ~bot[u]})

\* the "voice" branch of get_users (gamelib and game-library alike): the
\* non-bot members of the author's voice channel
voice_users(author) ==
    IF voice[author] = NoChannel THEN NotInVoice
    ELSE Collected({u \in Users : voice[u] = voice[author] /\ ~bot[u]})

\* the "online" branch: the non-bot members that are idle or online
online_users == Collected({u \in Users : status[u] \in {"idle", "online"} /\ ~bot[u]})

\* gamelib get_users
get_users(author, choice) ==
    IF choice = NoChoice THEN
        IF voice_users(author).raised THEN online_users ELSE voice_users(author)
    ELSE IF Lower(choice) = "online" THEN online_users
    ELSE IF Lower(choice) = "voice" THEN voice_users(author)
    ELSE Collected({})

\* game-library get_users: its first test compares the bound method
\* choice.lower with "online", which never holds, so only None takes the
\* online branch and "online" falls through to the empty list
lib_get_users(author, choice) ==
    IF choice = NoChoice THEN online_users
    ELSE IF Lower(choice) = "voice" THEN voice_users(author)
    ELSE Collected({})

\* legacy get_online_users: the non-bot members of every voice channel, and
\* when there are none the non-bot members whose status is online
get_online_users ==
    LET talking == {u \in Users : voice[u] # NoChannel /\ ~bot[u]} IN
    IF talking # {} THEN talking
    ELSE {u \in Users : status[u] = "online" /\ ~bot[u]}

\* ---------------------------------------------------- the common games

\* sorted(list(S)): the titles of S in str order
Sorted(S) ==
    [i \in 1..Cardinality(S) |->
        CHOOSE t \in S : Cardinality({x \in S : TitleRank(x) < TitleRank(t)}) = i - 1]

\* Intersection taking the titles that some user of us has.
Intersection_of_some(us) == {t \in Titles : \E u \in us : In(t, games[u])}

\* set(lists[0]).intersection(*lists[1:]) over the lists of the users in us
Intersection(us) == {t \in Titles : \A u \in us : In(t, games[u])}

\* gamelib get_suggestions: the two audience failures, then the lists of
\* the users that have games (an empty list is skipped), their
\* intersection sorted, and None when no user has games
get_suggestions(r, choice) ==
    LET got == get_users(r.author, choice)
        having == {u \in got.users : ~IsEmpty(games[u])}
    IN
    IF got.raised THEN [Send(r, "need_voice") EXCEPT !.ret = "None"]
    ELSE IF Cardinality(got.users) <= 1
         THEN [Send(r, "need_more_people") EXCEPT !.ret = "None", !.users = got.users]
    ELSE IF having = {} THEN [r EXCEPT !.ret = "None", !.users = got.users]
    ELSE [r EXCEPT !.ret = "list", !.users = got.users,
                   !.suggestions = Sorted(Intersection(having))]

\* game-library get_suggestions(users): None for no users; the "games" of
\* each user, None for a user all_users() does not hold, and set(None) or
\* intersection(None) raises TypeError
lib_get_suggestions(r, us) ==
    IF us = {} THEN [r EXCEPT !.ret = "None", !.users = us]
    ELSE IF \E u \in us : u \notin stored THEN Raise([r EXCEPT !.users = us])
    ELSE [r EXCEPT !.ret = "list", !.users = us, !.suggestions = Sorted(Intersection(us))]

\* legacy get_suggestions(users): game_list.get(user, []) of each user;
\* user_game_list[0] raises IndexError when there are no users
legacy_get_suggestions(r, us) ==
    IF us = {} THEN Raise([r EXCEPT !.users = us])
    ELSE [r EXCEPT !.ret = "list", !.users = us, !.suggestions = Sorted(Intersection(us))]

\* ------------------------------------- the common games, user by user
\* get_suggestions as the code walks it: the users in the order get_users
\* collected them from guild.members.

\* The orders in which guild.members may list the members of us.
Orderings(us) ==
    {o \in [1..Cardinality(us) -> us] :
        \A i, j \in 1..Cardinality(us) : o[i] = o[j] => i = j}

\* the "online" branch of get_users over guild.members in the order listed
online_users_listed(listed) ==
    SelectSeq(listed, LAMBDA u : status[u] \in {"idle", "online"} /\ ~bot[u])

\* for user in users: if games: suggestions.append(games)
RECURSIVE OwnedLists(_)
OwnedLists(users) ==
    IF users = <<>> THEN <<>>
    ELSE IF IsEmpty(games[Head(users)]) THEN OwnedLists(Tail(users))
    ELSE <<games[Head(users)]>> \o OwnedLists(Tail(users))

\* S.intersection(*others)
RECURSIVE SetIntersection(_, _)
SetIntersection(S, others) ==
    IF others = <<>> THEN S
    ELSE SetIntersection(S \cap SetOf(Head(others)), Tail(others))

\* common_games intersecting the first list with the second alone.
common_games_first_two(users) ==
    LET suggestions == OwnedLists(users) IN
    IF suggestions = <<>> THEN [ret |-> "None", suggestions |-> <<>>]
    ELSE [ret |-> "list",
          suggestions |-> Sorted(SetIntersection(SetOf(Head(suggestions)),
                                 IF Len(suggestions) >= 2
                                 THEN <<suggestions[2]>> ELSE <<>>))]

\* gamelib get_suggestions after the audience checks: None when no user has
\* games, else sorted(list(set(suggestions[0]).intersection(*suggestions[1:])))
common_games(users) ==
    LET suggestions == OwnedLists(users) IN
    IF suggestions = <<>> THEN [ret |-> "None", suggestions |-> <<>>]
    ELSE [ret |-> "list",
          suggestions |-> Sorted(SetIntersection(SetOf(Head(suggestions)),
                                                 Tail(suggestions)))]

\* gamelib suggest online, with guild.members in the order listed
suggest_listed(s, author, listed) ==
    LET r == [NewReq("suggest", author, author, "online", "run") EXCEPT !.listed = listed]
        users == online_users_listed(listed)
        audience == {users[i] : i \in 1..Len(users)}
        got == common_games(users)
        g == [r EXCEPT !.users = audience, !.ret = got.ret, !.suggestions = got.suggestions]
    IN
    /\ Free(s)
    /\ rev = "gamelib"
    /\ ~bot[author]
    /\ reqs' = [reqs EXCEPT ![s] =
          IF Len(users) <= 1
          THEN Finish([r EXCEPT !.users = audience, !.ret = "None"], "need_more_people")
          ELSE IF g.ret = "None" THEN Return(g)
          ELSE IF g.suggestions = <<>> THEN Finish(g, "zero_common")
          ELSE Finish(g, "you_can_play")]
    /\ UNCHANGED <<rev, bare, store, guild, history>>

\* --------------------------------------------------------------- suggest

\* not (choice and choice.lower() not in ("online", "voice")): None and the
\* empty str are falsy and pass
ValidFilter(choice) ==
    choice = NoChoice \/ choice = "" \/ Lower(choice) \in {"online", "voice"}

\* gamelib suggest
gamelib_suggest(r) ==
    LET g == get_suggestions(r, r.arg) IN
    IF ~ValidFilter(r.arg) THEN Finish(r, "invalid_filter")
    ELSE IF g.ret = "None" THEN Return(g)
    ELSE IF g.suggestions = <<>> THEN Finish(g, "zero_common")
    ELSE Finish(g, "you_can_play")

\* game-library suggest: it resolves and checks the audience itself, under
\* `if choice is None or choice.lower() in ("online", "voice")`, which the
\* empty str does not pass: the handler then ends with nothing done
lib_suggest(r) ==
    LET got == lib_get_users(r.author, r.arg)
        g == lib_get_suggestions(r, got.users)
    IN
    IF ~ValidFilter(r.arg) THEN Finish(r, "invalid_filter")
    ELSE IF r.arg = "" THEN Return(r)
    ELSE IF got.raised THEN Finish(r, "need_voice")
    ELSE IF Cardinality(got.users) <= 1
         THEN Finish([r EXCEPT !.users = got.users], "need_more_people")
    ELSE IF g.pc = "raised" THEN g
    ELSE IF g.suggestions = <<>> THEN Finish(g, "zero_common")
    ELSE Finish(g, "you_can_play")

\* legacy suggest
legacy_suggest(r) ==
    LET g == legacy_get_suggestions(r, get_online_users) IN
    IF g.pc = "raised" THEN g
    ELSE IF g.suggestions = <<>> THEN Finish(g, "zero_common")
    ELSE Finish(g, "you_can_play")

\* suggest [choice]: the handler reads the guild and the Config once
suggest(s, author, choice) ==
    LET r == NewReq("suggest", author, author, choice, "run") IN
    /\ Free(s)
    /\ ~bot[author]
    /\ (rev = "legacy" => choice = NoChoice)
    /\ reqs' = [reqs EXCEPT ![s] =
          CASE rev = "gamelib" -> gamelib_suggest(r)
            [] rev = "game-library" -> lib_suggest(r)
            [] rev = "legacy" -> legacy_suggest(r)]
    /\ UNCHANGED <<rev, bare, store, guild, history>>

\* ------------------------------------------------------------------ poll

\* What strawpoll answers a poll creation: an id, errorCode 40 (too many
\* options) or errorCode 99.
PollReplies == {"id", "40", "99"}

\* gamelib poll on top of create_strawpoll
gamelib_poll(r, reply) ==
    LET g == get_suggestions(r, r.arg)
        p == [g EXCEPT !.polled = g.suggestions]
    IN
    IF ~ValidFilter(r.arg) THEN Finish(r, "invalid_filter")
    ELSE IF g.ret = "None" THEN Return(g)
    ELSE IF g.suggestions = <<>> THEN Finish(g, "zero_common")
    ELSE CASE reply = "id" -> Finish(p, "poll_link")
           [] reply = "40" -> Finish(p, "too_many_games")
           [] reply = "99" -> Finish(p, "poll_went_wrong")

\* game-library poll: no try around get_users and no test of the number of
\* users; an error reply is the "too many games" message, and a created
\* poll ends in NameError (STRAWPOLL_ENDPOINT is not defined)
lib_poll(r, reply) ==
    LET got == lib_get_users(r.author, r.arg)
        g == lib_get_suggestions(r, got.users)
        p == [g EXCEPT !.polled = g.suggestions]
    IN
    IF ~ValidFilter(r.arg) THEN Finish(r, "invalid_filter")
    ELSE IF r.arg = "" THEN Return(r)
    ELSE IF got.raised THEN Raise([r EXCEPT !.ret = "MemberNotInVoiceChannelError"])
    ELSE IF g.pc = "raised" THEN g
    ELSE IF g.suggestions = <<>> THEN Finish(g, "zero_common")
    ELSE IF reply = "id" THEN Raise(p)
    ELSE Finish(p, "too_many_games")

\* legacy poll: the reply's ['id'], a KeyError on an error reply
legacy_poll(r, reply) ==
    LET g == legacy_get_suggestions(r, get_online_users)
        p == [g EXCEPT !.polled = g.suggestions]
    IN
    IF g.pc = "raised" THEN g
    ELSE IF g.suggestions = <<>> THEN Finish(g, "zero_common")
    ELSE IF reply = "id" THEN Finish(p, "poll_link")
    ELSE Raise(p)

\* poll [choice]
poll(s, author, choice, reply) ==
    LET r == NewReq("poll", author, author, choice, "run") IN
    /\ Free(s)
    /\ ~bot[author]
    /\ (rev = "legacy" => choice = NoChoice)
    /\ reqs' = [reqs EXCEPT ![s] =
          CASE rev = "gamelib" -> gamelib_poll(r, reply)
            [] rev = "game-library" -> lib_poll(r, reply)
            [] rev = "legacy" -> legacy_poll(r, reply)]
    \* the reply is drawn only when a poll is created
    /\ (reqs'[s].polled = <<>> => reply = "id")
    /\ UNCHANGED <<rev, bare, store, guild, history>>

\* ------------------------------------------------------------------ game

\* the bare game command: a random common game, when there is one
\* (random.choice of an empty list raises IndexError in the legacy cog)
game(s, author) ==
    LET r == NewReq("game", author, author, NoChoice, "run")
        g == CASE rev = "gamelib" -> get_suggestions(r, NoChoice)
               [] rev = "game-library" -> lib_get_suggestions(r, lib_get_users(author, NoChoice).users)
               [] rev = "legacy" -> legacy_get_suggestions(r, get_online_users)
    IN
    /\ Free(s)
    /\ ~bot[author]
    /\ reqs' = [reqs EXCEPT ![s] =
          IF g.pc = "raised" THEN g
          ELSE IF g.suggestions # <<>> THEN Finish(g, "lets_play")
          ELSE IF rev = "legacy" THEN Raise(g)
          ELSE Return(g)]
    /\ UNCHANGED <<rev, bare, store, guild, history>>

\* --------------------------------------------------------- specification

\* A fresh Config; the guild plays no part in the library commands.
InitConfig ==
    /\ rev \in StoreRevisions
    /\ games = [u \in Users |-> EmptyList]
    /\ steam_id = [u \in Users |-> NoSteamId]
    /\ steamkey = NoKey
    /\ stored = {}
    /\ bare = [u \in Users |-> NoTitle]
    /\ bot = [u \in Users |-> FALSE]
    /\ status = [u \in Users |-> "online"]
    /\ voice = [u \in Users |-> NoChannel]
    /\ reqs = [s \in Slots |-> Idle]

Init == InitConfig /\ InitHistory("none")

\* A command is invoked: the host starts its handler in slot s.
Invoke(s, authors, targets) ==
    \E a \in authors, u \in targets :
        \/ \E g \in TypedTitles : add(s, a, g, u)
        \/ \E g \in TypedTitles : remove(s, a, g, u)
        \/ update(s, a, u)
        \/ destroy(s, a, u)
        \/ \E arg \in SteamArgs : steamsync(s, a, arg, u)
        \/ \E k \in Keys : steamkey_cmd(s, a, k)

\* The handler in slot s runs to its next await.
Step(s) ==
    \/ add_read(s)
    \/ add_write(s)
    \/ remove_read(s)
    \/ remove_write(s)
    \/ \E ans \in DestroyAnswers : destroy_wait(s, ans)
    \/ destroy_write(s)
    \/ \E net \in Networks : update_fetch(s, net)
    \/ update_read(s)
    \/ update_write(s)
    \/ \E net \in Networks : steamsync_resolve(s, net)
    \/ steamsync_link(s)
    \/ \E net \in Networks : steamsync_fetch(s, net)
    \/ steamsync_read(s)
    \/ steamsync_write(s)

\* The host runs up to MaxInFlight handlers at once, interleaved at their
\* awaits; here all of them are a member's commands on the member's own
\* library, the record they contend for.
Next == \E s \in Slots : Invoke(s, {1}, {1}) \/ Step(s)

Spec == Init /\ [][Next]_vars

\* One command at a time: the next is invoked when the last has ended.
NextSerial == Invoke(1, StoreUsers, StoreUsers) \/ Step(1)

SpecSerial == Init /\ [][NextSerial]_vars

\* Add and destroy commands, one at a time.
NextDestroy ==
    \/ \E a \in StoreUsers, u \in StoreUsers, g \in TypedTitles : add(1, a, g, u)
    \/ \E a \in StoreUsers, u \in StoreUsers : destroy(1, a, u)
    \/ add_read(1)
    \/ add_write(1)
    \/ \E ans \in DestroyAnswers : destroy_wait(1, ans)
    \/ destroy_write(1)

\* wait_for(timeout=15) ends after 15 seconds at the latest, and the event
\* loop resumes a handler whose await has completed: a destroy that can
\* take its next step does take it.
FairDestroy ==
    /\ WF_vars(\E ans \in DestroyAnswers : destroy_wait(1, ans))
    /\ WF_vars(destroy_write(1))

SpecDestroy == Init /\ [][NextDestroy]_vars /\ FairDestroy

\* Two add commands started side by side: each slot takes one add.
NextAdds ==
    \E s \in Slots :
        \/ /\ reqs[s].pc = "idle"
           /\ \E a \in StoreUsers, g \in TypedTitles : add(s, a, g, a)
        \/ add_read(s)
        \/ add_write(s)

SpecAdds == Init /\ [][NextAdds]_vars

\* Only add and remove commands, one at a time, with their history.
InitAddRemove == InitConfig /\ InitHistory("lastop")

NextAddRemove ==
    \/ \E a \in StoreUsers, u \in StoreUsers, g \in TypedTitles : add(1, a, g, u)
    \/ \E a \in StoreUsers, u \in StoreUsers, g \in TypedTitles : remove(1, a, g, u)
    \/ add_read(1)
    \/ add_write(1)
    \/ remove_read(1)
    \/ remove_write(1)

SpecAddRemove == InitAddRemove /\ [][NextAddRemove]_vars

\* One member's commands on the member's own library, one at a time, with
\* the history of the Steam merges.
InitMerge == InitConfig /\ InitHistory("merged")

NextMerge == Invoke(1, {1}, {1}) \/ Step(1)

SpecMerge == InitMerge /\ [][NextMerge]_vars

\* A member's Steam merges in one slot and the member's adds in another,
\* with the history of the adds written while a fetch was in flight.
InitFetch == InitConfig /\ InitHistory("during")

NextFetch ==
    \/ \E k \in Keys : steamkey_cmd(1, 1, k)
    \/ \E arg \in SteamArgs : steamsync(1, 1, arg, 1)
    \/ \E net \in Networks : steamsync_resolve(1, net)
    \/ steamsync_link(1)
    \/ \E net \in Networks : steamsync_fetch(1, net)
    \/ steamsync_read(1)
    \/ steamsync_write(1)
    \/ update(1, 1, 1)
    \/ \E net \in Networks : update_fetch(1, net)
    \/ update_read(1)
    \/ update_write(1)
    \/ \E g \in TypedTitles : add(2, 1, g, 1)
    \/ add_read(2)
    \/ add_write(2)

SpecFetch == InitFetch /\ [][NextFetch]_vars

\* A fresh store under each revision, the add and list commands one at a
\* time.
InitFresh ==
    /\ rev \in Revisions
    /\ games = [u \in Users |-> EmptyList]
    /\ steam_id = [u \in Users |-> NoSteamId]
    /\ steamkey = NoKey
    /\ stored = {}
    /\ bare = [u \in Users |-> NoTitle]
    /\ bot = [u \in Users |-> FALSE]
    /\ status = [u \in Users |-> "online"]
    /\ voice = [u \in Users |-> NoChannel]
    /\ reqs = [s \in Slots |-> Idle]
    /\ InitHistory("none")

NextFresh ==
    \/ \E a \in StoreUsers, u \in StoreUsers, g \in TypedTitles :
          rev # "legacy" /\ add(1, a, g, u)
    \/ add_read(1)
    \/ add_write(1)
    \/ \E a \in StoreUsers, g \in TypedTitles : legacy_add(1, a, g)
    \/ \E a \in StoreUsers, u \in StoreUsers, g \in TypedTitles : legacy_addto(1, a, g, u)
    \/ \E a \in StoreUsers, u \in StoreUsers : list_cmd(1, a, u)

SpecFresh == InitFresh /\ [][NextFresh]_vars

\* ------------------------------------------- the suggestion commands

\* The libraries a guild may hold when a suggestion is asked for: any set
\* of titles per member; a member with no games may have no record at all.
InitLibraries ==
    /\ games \in [Users -> {ListOf(S) : S \in SUBSET Titles}]
    /\ stored \in SUBSET Users
    /\ \A u \in Users : ~IsEmpty(games[u]) => u \in stored
    /\ bare = [u \in Users |-> NoTitle]
    /\ steam_id = [u \in Users |-> NoSteamId]
    /\ steamkey = NoKey

\* Member 1 asks; the others are online or not.
InitSuggest ==
    /\ rev \in Revisions
    /\ InitLibraries
    /\ bot = [u \in Users |-> FALSE]
    /\ status \in [Users -> {"online", "offline"}]
    /\ status[1] = "online"
    /\ voice = [u \in Users |-> NoChannel]
    /\ reqs = [s \in Slots |-> Idle]
    /\ InitHistory("none")

NextSuggest ==
    \/ \E c \in Choices : suggest(1, 1, c)
    \/ \E c \in Choices, reply \in PollReplies : poll(1, 1, c, reply)
    \/ game(1, 1)

SpecSuggest == InitSuggest /\ [][NextSuggest]_vars

\* The libraries of the spec's scenario, and any guild around member 1:
\* each other member's status and voice channel, member 3 a bot or not.
InitAudience ==
    /\ rev \in Revisions
    /\ games = [u \in Users |->
                  CASE u = 1 -> ListOf({"Chess", "Go"})
                    [] u = 2 -> ListOf({"Go", "Checkers"})
                    [] u = 3 -> ListOf({"Go"})]
    /\ stored = Users
    /\ bare = [u \in Users |-> NoTitle]
    /\ steam_id = [u \in Users |-> NoSteamId]
    /\ steamkey = NoKey
    /\ bot \in [Users -> BOOLEAN]
    /\ ~bot[1] /\ ~bot[2]
    /\ status \in [Users -> Statuses]
    /\ status[1] \in {"online", "dnd"}
    /\ voice \in [Users -> {NoChannel} \cup Channels]
    /\ reqs = [s \in Slots |-> Idle]
    /\ InitHistory("none")

SpecAudience == InitAudience /\ [][NextSuggest]_vars

\* The latest revision answering suggest online, two requests in flight,
\* whatever order guild.members lists the members in.
InitCommon ==
    /\ InitSuggest
    /\ rev = "gamelib"
    /\ stored = {u \in Users : ~IsEmpty(games[u])}
    /\ status[2] = "online"

NextCommon == \E s \in {1, 2}, listed \in Orderings(Users) : suggest_listed(s, 1, listed)

SpecCommon == InitCommon /\ [][NextCommon]_vars

\* ============================================================ properties

Suggesting == {"suggest", "poll", "game"}

\* What the loaded revision's audience resolution gives request r.
Resolution(r) ==
    CASE rev = "gamelib" -> get_users(r.author, r.arg)
      [] rev = "game-library" -> lib_get_users(r.author, r.arg)
      [] rev = "legacy" -> Collected(get_online_users)

\* C1 (SpecAdds): two add commands of one user with two different titles,
\* run side by side, lose no update: once both have ended the user's list
\* holds both titles.
C1_NoLostUpdate ==
    \A s1 \in Slots, s2 \in Slots :
        ( /\ s1 # s2
          /\ reqs[s1].cmd = "add" /\ reqs[s1].pc = "done"
          /\ reqs[s2].cmd = "add" /\ reqs[s2].pc = "done"
          /\ reqs[s1].user = reqs[s2].user
          /\ reqs[s1].arg # reqs[s2].arg )
        => /\ In(reqs[s1].arg, games[reqs[s1].user])
           /\ In(reqs[s2].arg, games[reqs[s1].user])

\* C2 (SpecSuggest): when the audience of a suggestion command has at least
\* 2 users and one of them has an empty or no stored list, the common games
\* it computes are empty.
C2_EmptyLibraryEmptiesResult ==
    \A s \in Slots :
        LET r == reqs[s] IN
        ( /\ Ended(r) /\ r.cmd \in Suggesting
          /\ Cardinality(r.users) >= 2
          /\ \E u \in r.users : IsEmpty(games[u]) )
        => r.suggestions = <<>>

\* C3 (SpecSuggest): when audience resolution yields fewer than 2 users,
\* suggest, poll and the bare game command end with the insufficient-audience
\* message, compute no intersection and create no poll.
C3_InsufficientAudience ==
    \A s \in Slots :
        LET r == reqs[s] IN
        ( /\ Ended(r) /\ r.cmd \in Suggesting
          /\ ValidFilter(r.arg)
          /\ ~Resolution(r).raised
          /\ Cardinality(Resolution(r).users) < 2 )
        => /\ Sent(r, "need_more_people")
           /\ r.ret # "list"
           /\ r.polled = <<>>

\* C4 (SpecSerial): after any sequence of add, remove, update, steamsync or
\* steamlink, and destroy commands, no stored list holds a title twice.
C4_NoDuplicates == \A u \in Users : ~HasDuplicates(games[u])

\* C5 (SpecSerial): a handler invoked by an author without the manage
\* permission for another user's record changes neither that user's games
\* nor that user's steam_id.
C5_ManageOnly ==
    [][ \A s \in Slots :
          LET r == reqs[s] IN
          ( /\ r.pc \notin {"idle", "done", "raised"}
            /\ r.user # r.author
            /\ r.author \notin Admins )
          => /\ games'[r.user] = games[r.user]
             /\ steam_id'[r.user] = steam_id[r.user] ]_vars

\* C6 (SpecAddRemove): through every sequence of add and remove commands a
\* title is in the user's list iff the last add or remove of it that took
\* effect was an add, and then it is there once.
C6_NetEffect ==
    \A u \in Users, t \in Titles :
        games[u][t] = IF lastop[u][t] = "add" THEN 1 ELSE 0

\* C6: a title added, another added and removed again, and an add of the
\* first repeated (it reports already-exists).
C6_Witness ==
    /\ lastop[1]["Chess"] = "add"
    /\ lastop[1]["Go"] = "remove"
    /\ reqs[1].cmd = "add" /\ reqs[1].user = 1 /\ reqs[1].arg = "Chess"
    /\ Sent(reqs[1], "already_exists")

\* C7 (SpecMerge): a Steam merge (update, steamsync, steamlink) run a second
\* time with the same fetched names, with no other write of the list in
\* between, leaves the title set the first run left.
C7_MergeIdempotent ==
    merged.runs = 2 => SetOf(games[merged.user]) = merged.once

\* C7: a second run of a merge has just written a list that is not empty.
C7_Witness ==
    /\ merged.runs = 2
    /\ merged.once # {}
    /\ reqs[1].cmd \in {"update", "steamsync"}
    /\ Sent(reqs[1], IF reqs[1].cmd = "update" THEN "updated" ELSE "synced")

\* C8 (SpecSerial): no step of a destroy changes the user's steam_id, and
\* the write after a yes leaves the user's games empty.
C8_DestroyKeepsLink ==
    [][ \A s \in Slots :
          LET r == reqs[s] IN
          (r.cmd = "destroy" /\ r.pc \in {"wait", "write"} /\ reqs'[s] # r)
          => /\ steam_id'[r.user] = steam_id[r.user]
             /\ r.pc = "write" => IsEmpty(games'[r.user]) ]_vars

\* C8: a confirmed destroy of a linked user has ended; the games are gone
\* and the link is there.
C8_Witness ==
    /\ reqs[1].cmd = "destroy" /\ Sent(reqs[1], "nuked")
    /\ steam_id[reqs[1].user] # NoSteamId
    /\ IsEmpty(games[reqs[1].user])

\* C9 (SpecAudience): with no choice given the audience is the non-bot
\* members of the author's voice channel when the author is in one, and
\* otherwise the non-bot members that are online or idle; the not-in-voice
\* message is never sent.
C9_VoiceFirst ==
    \A s \in Slots :
        LET r == reqs[s] IN
        (Ended(r) /\ r.cmd \in Suggesting /\ r.arg = NoChoice)
        => /\ ~Sent(r, "need_voice")
           /\ r.users =
                IF voice[r.author] # NoChannel
                THEN {u \in Users : voice[u] = voice[r.author] /\ ~bot[u]}
                ELSE {u \in Users : status[u] \in {"online", "idle"} /\ ~bot[u]}

\* C10 (SpecAudience): with the choice "online" (in any case) the audience
\* is exactly the non-bot members whose status is online or idle.
C10_PresenceAudience ==
    \A s \in Slots :
        LET r == reqs[s] IN
        (Ended(r) /\ r.cmd \in {"suggest", "poll"} /\ r.arg \in {"online", "ONLINE"})
        => r.users = {u \in Users : status[u] \in {"online", "idle"} /\ ~bot[u]}

\* C11 (SpecSuggest): when the audience has at least 2 users and each of
\* them has a non-empty list, the common games are exactly the titles that
\* are in the list of every user of the audience.
C11_ExactlyCommon ==
    \A s \in Slots :
        LET r == reqs[s] IN
        ( /\ Ended(r) /\ r.cmd \in Suggesting
          /\ Cardinality(r.users) >= 2
          /\ \A u \in r.users : ~IsEmpty(games[u]) )
        => /\ r.ret = "list"
           /\ {r.suggestions[i] : i \in 1..Len(r.suggestions)}
                = {t \in Titles : \A u \in r.users : games[u][t] > 0}

\* C11: the scenario {Chess, Go}, {Go, Checkers}, {Go} answered with [Go].
C11_Witness ==
    /\ SetOf(games[1]) = {"Chess", "Go"}
    /\ SetOf(games[2]) = {"Go", "Checkers"}
    /\ SetOf(games[3]) = {"Go"}
    /\ reqs[1].cmd = "suggest" /\ reqs[1].pc = "done"
    /\ reqs[1].users = {1, 2, 3}
    /\ reqs[1].suggestions = <<"Go">>
    /\ Sent(reqs[1], "you_can_play")

\* C12 (SpecCommon): the common games are in strictly ascending str order
\* (sorted, no title twice), they are what every order of the same audience
\* gives, and two calls over the same audience and libraries answer alike.
C12_SortedOrderFree ==
    /\ \A s \in Slots :
         LET r == reqs[s] IN
         (Ended(r) /\ r.cmd = "suggest" /\ Cardinality(r.users) >= 2)
         => /\ \A i, j \in 1..Len(r.suggestions) :
                 i < j => TitleRank(r.suggestions[i]) < TitleRank(r.suggestions[j])
            /\ \A o \in Orderings(r.users) :
                 common_games(o) = [ret |-> r.ret, suggestions |-> r.suggestions]
    /\ \A s1 \in Slots, s2 \in Slots :
         ( /\ Ended(reqs[s1]) /\ Ended(reqs[s2])
           /\ reqs[s1].cmd = "suggest" /\ reqs[s2].cmd = "suggest"
           /\ reqs[s1].users = reqs[s2].users )
         => /\ reqs[s1].ret = reqs[s2].ret
            /\ reqs[s1].suggestions = reqs[s2].suggestions
            /\ reqs[s1].sent = reqs[s2].sent

\* C12: two calls with the members listed in opposite orders, the libraries
\* all different, answered with the same two titles in order.
C12_Witness ==
    /\ reqs[1].listed = <<1, 2, 3>> /\ reqs[2].listed = <<3, 2, 1>>
    /\ reqs[1].pc = "done" /\ reqs[2].pc = "done"
    /\ reqs[1].users = {1, 2, 3}
    /\ SetOf(games[1]) = {"Checkers", "Chess", "Go"}
    /\ SetOf(games[2]) = {"Chess", "Checkers"}
    /\ SetOf(games[3]) = {"Checkers", "Chess", "Go"}
    /\ reqs[1].suggestions = <<"Checkers", "Chess">>
    /\ reqs[2].suggestions = <<"Checkers", "Chess">>

\* C13 (SpecSerial): with no Steam key set, a steamsync or update ends with
\* a failure message (the need-a-key message, or not-linked for update) and
\* never with the was-synced or have-been-updated message.
C13_NoKeyNoSuccess ==
    \A s \in Slots :
        LET r == reqs[s] IN
        (Ended(r) /\ r.cmd \in {"steamsync", "update"} /\ steamkey = NoKey)
        => /\ ~Sent(r, "synced")
           /\ ~Sent(r, "updated")
           /\ Sent(r, "need_key") \/ (r.cmd = "update" /\ Sent(r, "not_linked"))

\* C14 (SpecSerial): a steamkey command of an author who is no admin leaves
\* the stored Steam key as it was.
C14_KeyAdminOnly ==
    [][ \A s \in Slots :
          ( /\ reqs'[s] # reqs[s]
            /\ reqs'[s].cmd = "steamkey"
            /\ reqs'[s].author \notin Admins )
          => steamkey' = steamkey ]_vars

\* C15 (SpecFresh): the list command for a user with no stored record ends
\* normally having read the empty list, and an add that ends for a user with
\* no stored record ends normally and leaves that user the list of exactly
\* the added title.
C15_UnknownUserIsEmpty ==
    [][ \A s \in Slots :
          LET r == reqs'[s] IN
          (r # reqs[s] /\ Ended(r) /\ r.user \notin stored)
          => /\ r.cmd = "list"
                => r.pc = "done" /\ r.ret = "list" /\ IsEmpty(r.read)
             /\ r.cmd \in {"add", "addto"}
                => /\ r.pc = "done"
                   /\ bare'[r.user] = NoTitle
                   /\ games'[r.user] = ListOf({r.arg}) ]_vars

\* C16 (SpecAddRemove): an add of a title that is in the user's list ends
\* with the already-exists message, a remove of a title that is not in it
\* ends with the not-in-library message, and neither changes a stored list.
C16_NoOpReports ==
    [][ \A s \in Slots :
          LET r == reqs[s]
              q == reqs'[s]
          IN
          (r.pc = "read" /\ q # r)
          => /\ (r.cmd = "add" /\ In(r.arg, games[r.user]))
                => /\ q.pc = "done" /\ q.sent = <<"already_exists">>
                   /\ games' = games
             /\ (r.cmd = "remove" /\ ~In(r.arg, games[r.user]))
                => /\ q.pc = "done" /\ q.sent = <<"not_in_library">>
                   /\ games' = games ]_vars

\* C16: Go was added and removed, Chess is still in the list, and a second
\* remove of Go has been answered with not-in-library.
C16_Witness ==
    /\ reqs[1].cmd = "remove" /\ reqs[1].user = 1 /\ reqs[1].arg = "Go"
    /\ reqs[1].pc = "done" /\ Sent(reqs[1], "not_in_library")
    /\ lastop[1]["Go"] = "remove"
    /\ games[1] = ListOf({"Chess"})

\* C17 (SpecAudience): a suggest or poll with the choice "voice" by an
\* author in no voice channel ends in the not-in-voice failure (the message,
\* or MemberNotInVoiceChannelError leaving the handler): no audience is
\* taken from the online members, no common games computed, no poll made.
C17_VoiceOnlyFails ==
    \A s \in Slots :
        LET r == reqs[s] IN
        ( /\ Ended(r) /\ r.cmd \in {"suggest", "poll"}
          /\ r.arg = "voice" /\ voice[r.author] = NoChannel )
        => /\ \/ r.pc = "done" /\ r.sent = <<"need_voice">>
              \/ r.pc = "raised" /\ r.sent = <<>> /\ r.ret = "MemberNotInVoiceChannelError"
           /\ r.users = {}
           /\ r.ret # "list"
           /\ r.suggestions = <<>>
           /\ r.polled = <<>>

\* C17: poll voice asked outside every voice channel while all three
\* members are online, answered with the need-voice message.
C17_Witness ==
    /\ reqs[1].cmd = "poll" /\ reqs[1].arg = "voice"
    /\ voice[1] = NoChannel
    /\ \A u \in Users : status[u] = "online" /\ ~bot[u]
    /\ rev = "gamelib"
    /\ reqs[1].sent = <<"need_voice">>

\* C18 (SpecSuggest): a suggest or poll whose choice is given and is
\* neither "online" nor "voice" in any case ends with the invalid-filter
\* message alone: get_users and get_suggestions are not called and no poll
\* is made.
C18_InvalidRejected ==
    \A s \in Slots :
        LET r == reqs[s] IN
        ( /\ Ended(r) /\ r.cmd \in {"suggest", "poll"}
          /\ r.arg \notin {NoChoice, "online", "ONLINE", "voice"} )
        => /\ r.pc = "done" /\ r.sent = <<"invalid_filter">>
           /\ r.ret = "unset"
           /\ r.users = {}
           /\ r.polled = <<>>

\* C19 (SpecFetch): a merge reads the stored list after its fetch has
\* returned and keeps every title it read: the list it builds holds all
\* titles stored at its read, the list it writes holds all titles it built,
\* and a title added while a merge's fetch was in flight stays in the list.
C19_FetchThenMerge ==
    [][ /\ \A s \in Slots :
             LET r == reqs[s]
                 q == reqs'[s]
             IN
             (r.cmd \in {"update", "steamsync"} /\ q # r)
             => /\ r.pc = "read"
                   => /\ q.fetched = r.fetched /\ ~IsEmpty(r.fetched)
                      /\ \A t \in Titles : In(t, games[r.user]) => In(t, q.local)
                /\ r.pc = "write"
                   => \A t \in Titles : In(t, r.local) => In(t, games'[r.user])
        /\ \A u \in Users, t \in Titles :
             lastop'[u][t] = "during" => In(t, games'[u]) ]_vars

\* C19: Chess was added while the fetch of an update was in flight, and
\* the update has written its merge: the Steam titles and Chess.
C19_Witness ==
    /\ lastop[1]["Chess"] = "during"
    /\ reqs[1].cmd = "update" /\ Sent(reqs[1], "updated")
    /\ reqs[2].cmd = "add" /\ reqs[2].arg = "Chess" /\ Sent(reqs[2], "added")
    /\ SetOf(games[1]) = {"Checkers", "Chess", "Go"}

\* C20 (SpecSerial): when a steamsync or steamlink given a 64-bit Steam id
\* has returned, the user's stored steam_id is that id (so that a following
\* update does not answer not-linked).
C20_LinkStored ==
    \A s \in Slots :
        LET r == reqs[s] IN
        (r.cmd = "steamsync" /\ r.pc = "done" /\ r.arg \in SteamIds)
        => steam_id[r.user] = r.arg

\* C21 (SpecSerial): a steamsync or steamlink given a profile name, when no
\* Steam key is set or the name does not resolve, ends at once with a
\* failure message: the user's steam_id and every stored list stay as they
\* were, and nothing is fetched or merged.
C21_UnresolvedNoEffect ==
    [][ \A s \in Slots :
          LET r == reqs[s]
              q == reqs'[s]
          IN
          ( /\ r.cmd = "steamsync" /\ r.pc = "resolve" /\ q # r
            /\ r.arg \notin SteamIds
            /\ steamkey = NoKey \/ r.arg = "nobody" )
          => /\ q.pc = "done"
             /\ q.sent \in {<<"need_key">>, <<"vanity_problem">>, <<"steam_error">>}
             /\ IsEmpty(q.fetched) /\ IsEmpty(q.local)
             /\ steam_id' = steam_id
             /\ games' = games ]_vars

\* C21: a linked user with games asked to sync the name nobody, with a key
\* set; the answer is the vanity problem and the link and games are there.
C21_Witness ==
    /\ reqs[1].cmd = "steamsync" /\ reqs[1].arg = "nobody"
    /\ reqs[1].sent = <<"vanity_problem">>
    /\ steamkey # NoKey
    /\ steam_id[reqs[1].user] = "76561198000000001"
    /\ SetOf(games[reqs[1].user]) = {"Checkers", "Go"}

\* C22 (SpecSuggest): every gamelib suggest with a valid mode ends having
\* sent a response, and an audience of two or more users with no game in
\* common (all lists empty included) is told of zero games in common.
C22_AlwaysResponds ==
    \A s \in Slots :
        LET r == reqs[s] IN
        ( /\ rev = "gamelib"
          /\ Ended(r) /\ r.cmd = "suggest"
          /\ r.arg = NoChoice \/ Lower(r.arg) \in {"online", "voice"} )
        => /\ Len(r.sent) >= 1
           /\ ( Cardinality(r.users) >= 2 /\ Intersection(r.users) = {} )
                => Sent(r, "zero_common")

\* C23 (SpecDestroy): a destroy leaves every list as it is when it prompts
\* and when its wait ends; only after a yes does it go on to write, and that
\* write clears the target's list and no other; a timeout or a no ends the
\* request with its message and nothing written; and every destroy that has
\* prompted ends.
C23_DestroyOnlyAfterYes ==
    /\ [][ \A s \in Slots :
             LET r == reqs[s]
                 q == reqs'[s]
             IN
             /\ (q # r /\ q.cmd = "destroy" /\ q.pc = "wait")
                  => /\ games' = games
                     /\ q.sent = <<"are_you_sure">>
             /\ (q # r /\ r.cmd = "destroy" /\ r.pc = "wait")
                  => /\ games' = games
                     /\ \/ /\ q.pc = "write" /\ q.result = "True"
                        \/ /\ q.pc = "done" /\ q.result = "False"
                           /\ q.sent = <<"are_you_sure", "that_was_close">>
                        \/ /\ q.pc = "done" /\ q.result = "unset"
                           /\ q.sent = <<"are_you_sure", "thats_what_i_thought">>
             /\ (q # r /\ r.cmd = "destroy" /\ r.pc = "write")
                  => /\ r.result = "True"
                     /\ games' = [games EXCEPT ![r.user] = EmptyList]
                     /\ q.pc = "done"
                     /\ q.sent = <<"are_you_sure", "nuked">> ]_vars
    /\ \A s \in Slots :
         (reqs[s].cmd = "destroy" /\ reqs[s].pc \in {"wait", "write"})
           ~> (reqs[s].cmd = "destroy" /\ reqs[s].pc = "done")

\* C23: member 1 asked to destroy the two-title list of member 2 and
\* answered no; the request has ended and the list is whole.
C23_Witness ==
    /\ reqs[1].cmd = "destroy" /\ reqs[1].pc = "done"
    /\ reqs[1].author = 1 /\ reqs[1].user = 2
    /\ reqs[1].result = "False"
    /\ SetOf(games[2]) = {"Chess", "Go"}

====
